---- MODULE Spec2Model ----
(***************************************************************************)
(* Model of go/weed/server.go: the "weed server" command, which starts an  *)
(* embedded master server, its consensus (raft) module and a local volume  *)
(* server inside one process.                                              *)
(*                                                                         *)
(* Strings are sequences of one-character strings, so that strings.Split   *)
(* and strconv.Atoi are modelled by what they do to the characters.        *)
(***************************************************************************)
EXTENDS Integers, Sequences, FiniteSets, TLC

(***************************************************************************)
(* Bounds of the model.                                                    *)
(***************************************************************************)
\* largest number of comma-separated entries drawn for -dir and -max
MaxEntries == 2
\* largest number of elections the peers of the consensus cluster may start
MaxElections == 3

\* the most allocation requests the leaders get
MaxAllocations == 2

(***************************************************************************)
(* Strings.                                                                *)
(***************************************************************************)
Comma == ","

Digits == {"0", "1", "2", "3", "4", "5", "6", "7", "8", "9"}

DigitVal(c) ==
    CASE c = "0" -> 0 [] c = "1" -> 1 [] c = "2" -> 2 [] c = "3" -> 3
      [] c = "4" -> 4 [] c = "5" -> 5 [] c = "6" -> 6 [] c = "7" -> 7
      [] c = "8" -> 8 [] c = "9" -> 9

\* the position of the first comma of s, 0 when s holds none
FirstComma(s) ==
    IF \E i \in 1..Len(s) : s[i] = Comma
    THEN CHOOSE i \in 1..Len(s) : s[i] = Comma /\ \A j \in 1..(i - 1) : s[j] # Comma
    ELSE 0

\* strings.Split(s, ","): the substrings between the commas, in order; a
\* string without a comma (the empty string included) yields itself alone
RECURSIVE Split(_)
Split(s) ==
    LET i == FirstComma(s)
    IN  IF i = 0 THEN <<s>>
        ELSE <<SubSeq(s, 1, i - 1)>> \o Split(SubSeq(s, i + 1, Len(s)))

\* the value of a string of decimal digits, most significant digit first
RECURSIVE DecimalValue(_)
DecimalValue(ds) ==
    IF ds = <<>> THEN 0
    ELSE 10 * DecimalValue(SubSeq(ds, 1, Len(ds) - 1)) + DigitVal(ds[Len(ds)])

\* strconv.Atoi(s): an optional sign followed by at least one decimal
\* digit and nothing else; anything else is an error
Atoi(s) ==
    LET signed == Len(s) > 0 /\ s[1] \in {"+", "-"}
        ds     == IF signed THEN Tail(s) ELSE s
    IN  IF ds = <<>> \/ \E i \in 1..Len(ds) : ds[i] \notin Digits
        THEN [ok |-> FALSE, val |-> 0]
        ELSE [ok |-> TRUE,
              val |-> IF signed /\ s[1] = "-" THEN 0 - DecimalValue(ds)
                      ELSE DecimalValue(ds)]

\* a + ":" + b, and the entries of a list joined by commas
RECURSIVE JoinComma(_)
JoinComma(es) ==
    IF Len(es) = 0 THEN <<>>
    ELSE IF Len(es) = 1 THEN es[1]
    ELSE es[1] \o <<Comma>> \o JoinComma(Tail(es))

\* all lists of 1..n entries drawn from the set E
Lists(E, n) == UNION {[1..k -> E] : k \in 1..n}

(***************************************************************************)
(* The command line: the values the flags can hold when runServer starts.  *)
(***************************************************************************)
EmptyString == <<>>

\* -dir: one or more folders
DirEntries == {<<"a">>, <<"b">>}
DirValues == {JoinComma(es) : es \in Lists(DirEntries, MaxEntries)}

\* -max: one or more counts; the empty entry and "x" are not numbers
MaxCountEntries == {<<"7">>, <<"1", "2">>, <<"x">>, EmptyString}
MaxValues == {JoinComma(es) : es \in Lists(MaxCountEntries, MaxEntries)}

\* -mdir: unset, or a folder of its own
MetaFolderValues == {EmptyString, <<"b">>}

\* -peers: none, two peers, and a list with an empty entry
PeersValues == {EmptyString, <<"p", Comma, "q">>, <<"p", Comma>>}

\* -maxCpu, -publicUrl and -whiteList: unset, or set
MaxCpuValues == {0, 2}
PublicUrlValues == {EmptyString, <<"u">>}
WhiteListValues == {EmptyString, <<"w", Comma, "v">>}

\* runtime.NumCPU() of the machine
NumCPU == 4

\* the paths of the file system that may exist and be writable
FolderPaths == {<<"a">>, <<"b">>, <<"a", Comma, "b">>}

\* -ip, -masterPort and -port hold their defaults; strconv.Itoa of a port
\* is its decimal string
ServerIp == <<"localhost">>
MasterPortString == <<"9333">>
VolumePortString == <<"8080">>

\* the default of -pulseSeconds
VolumePulse == 5

\* ip + ":" + strconv.Itoa(port)
HostPort(ip, port) == ip \o <<":">> \o port

VARIABLES
    \* flags and package-level variables
    masterMetaFolder,           \* *masterMetaFolder
    mdirFlag,                   \* the value of -mdir as given on the command line
    maxCpuFlag,                 \* the value of -maxCpu as given
    publicUrlFlag,              \* the value of -publicUrl as given
    volumeDataFolders,          \* *volumeDataFolders
    volumeMaxDataVolumeCounts,  \* *volumeMaxDataVolumeCounts
    serverPeers,                \* *serverPeers
    serverMaxCpu,               \* *serverMaxCpu
    gomaxprocs,                 \* the setting of runtime.GOMAXPROCS
    volumePublicUrl,            \* *volumePublicUrl
    serverWhiteListOption,      \* *serverWhiteListOption
    serverWhiteList,            \* serverWhiteList (empty while nil)
    \* the environment
    writable,                   \* the folders util.TestFolderWritable accepts
    \* locals of runServer
    folders, maxCountStrings, maxCounts, idx,
    raftWaitForMaster, volumeWait,
    masterListener,             \* the address it listens on (empty while none)
    peers,                      \* the raft goroutine's peers (empty while nil)
    peersAssigned,              \* how often the raft goroutine assigned peers
    \* the servers constructed so far, in order of construction
    masterServers, raftServers, volumeServers,
    \* control state
    mainPc, masterPc, raftPc,
    exited,                     \* glog.Fatalf has ended the process
    \* the consensus cluster of master peers
    rState,                     \* per peer: "Follower", "Candidate" or "Leader"
    rTerm,                      \* per peer: its current term
    rVotedFor,                  \* per peer: whom it voted for in its term
    rVotes,                     \* per peer: the peers that granted it their vote
    rLeader,                    \* per peer: the leader it knows of
    rMsgs,                      \* the consensus RPCs sent so far
    rElections,                 \* the number of elections started so far
    \* the replicated log of topology mutations and the volume-id counter
    aLog,                       \* per peer: its log of proposed mutations
    aCommit,                    \* per peer: the length of its committed prefix
    aPending,                   \* per peer: log positions a client waits for
    aRequests,                  \* the number of allocation requests so far
    aIssued,                    \* the VolumeIds returned to clients so far
    aOrphans,                   \* entries the first crash of a leader left uncommitted
    aSuperseded                 \* those of aOrphans a later election followed

vars == <<masterMetaFolder, mdirFlag, maxCpuFlag, publicUrlFlag, volumeDataFolders, volumeMaxDataVolumeCounts,
          serverPeers, serverMaxCpu, gomaxprocs, volumePublicUrl,
          serverWhiteListOption, serverWhiteList, writable, folders, maxCountStrings, maxCounts, idx,
          raftWaitForMaster, volumeWait, masterListener, peers, peersAssigned,
          masterServers, raftServers, volumeServers,
          mainPc, masterPc, raftPc, exited,
          rState, rTerm, rVotedFor, rVotes, rLeader, rMsgs, rElections,
          aLog, aCommit, aPending, aRequests, aIssued, aOrphans, aSuperseded>>

allocVars == <<aLog, aCommit, aPending, aRequests, aIssued, aOrphans, aSuperseded>>
raftVars == <<rState, rTerm, rVotedFor, rVotes, rLeader, rMsgs, rElections>>
clusterVars == <<raftVars, allocVars>>
bootVars == <<masterMetaFolder, mdirFlag, maxCpuFlag, publicUrlFlag,
              volumeDataFolders,
              volumeMaxDataVolumeCounts, serverPeers, serverMaxCpu, gomaxprocs,
              volumePublicUrl, serverWhiteListOption, serverWhiteList, writable,
              folders, maxCountStrings, maxCounts, idx, raftWaitForMaster,
              volumeWait, masterListener, peers, peersAssigned, masterServers,
              raftServers, volumeServers, mainPc, masterPc, raftPc, exited>>

\* what runServer only reads, and with it what its configuration phase rewrites
inputVars == <<mdirFlag, maxCpuFlag, publicUrlFlag, volumeDataFolders,
               volumeMaxDataVolumeCounts,
               serverPeers, serverWhiteListOption, writable>>
flagVars == <<inputVars, masterMetaFolder, serverMaxCpu, gomaxprocs,
              volumePublicUrl, serverWhiteList>>
localVars == <<folders, maxCountStrings, maxCounts, idx>>
waitVars == <<raftWaitForMaster, volumeWait>>
serverVars == <<masterServers, raftServers, volumeServers>>

(***************************************************************************)
(* Helpers of the actions.                                                 *)
(***************************************************************************)
\* util.TestFolderWritable(folder) returns no error
TestFolderWritable(folder) == folder \in writable

\* glog.Fatalf: the process ends, whatever the other goroutines are doing
Fatalf == exited' = TRUE

Running == ~exited

\* the master server the master goroutine holds in ms
ms == Len(masterServers)

\* the cluster of three master peers named by -peers and the own address
Peers == {"m1", "m2", "m3"}
NoPeer == "none"

\* every peer a Follower of term 0 with no known leader, nothing in flight
RaftInit ==
    /\ rState = [p \in Peers |-> "Follower"]
    /\ rTerm = [p \in Peers |-> 0]
    /\ rVotedFor = [p \in Peers |-> NoPeer]
    /\ rVotes = [p \in Peers |-> {}]
    /\ rLeader = [p \in Peers |-> NoPeer]
    /\ rMsgs = {}
    /\ rElections = 0

BootInit ==
    /\ mdirFlag \in MetaFolderValues
    /\ masterMetaFolder = mdirFlag
    /\ volumeDataFolders \in DirValues
    /\ volumeMaxDataVolumeCounts \in MaxValues
    /\ serverPeers \in PeersValues
    /\ serverMaxCpu \in MaxCpuValues
    /\ maxCpuFlag = serverMaxCpu
    /\ gomaxprocs = NumCPU
    /\ volumePublicUrl \in PublicUrlValues
    /\ publicUrlFlag = volumePublicUrl
    /\ serverWhiteListOption \in WhiteListValues
    /\ serverWhiteList = <<>>
    /\ writable \in SUBSET FolderPaths
    /\ folders = <<>>
    /\ maxCountStrings = <<>>
    /\ maxCounts = <<>>
    /\ idx = 0
    /\ raftWaitForMaster = 0
    /\ volumeWait = 0
    /\ masterListener = <<>>
    /\ peers = <<>>
    /\ peersAssigned = 0
    /\ masterServers = <<>>
    /\ raftServers = <<>>
    /\ volumeServers = <<>>
    /\ mainPc = "maxCpu"
    /\ masterPc = "none"
    /\ raftPc = "none"
    /\ exited = FALSE

\* every peer with an empty log, nothing committed or issued
AllocInit ==
    /\ aLog = [p \in Peers |-> <<>>]
    /\ aCommit = [p \in Peers |-> 0]
    /\ aPending = [p \in Peers |-> {}]
    /\ aRequests = 0
    /\ aIssued = <<>>
    /\ aOrphans = {}
    /\ aSuperseded = {}

Init == BootInit /\ RaftInit /\ AllocInit

(***************************************************************************)
(* runServer, the main goroutine: configuration phase (lines 61-103).      *)
(***************************************************************************)
\* lines 61-64
SetMaxCpu ==
    /\ Running /\ mainPc = "maxCpu"
    /\ serverMaxCpu' = IF serverMaxCpu < 1 THEN NumCPU ELSE serverMaxCpu
    /\ gomaxprocs' = serverMaxCpu'
    /\ mainPc' = "metaDefault"
    /\ UNCHANGED <<inputVars, masterMetaFolder, volumePublicUrl, serverWhiteList,
                   localVars, waitVars, masterListener, peers, peersAssigned,
                   serverVars, masterPc, raftPc, exited>>
    /\ UNCHANGED clusterVars

\* lines 66-68: -mdir defaults to the value of -dir
DefaultMetaFolder ==
    /\ Running /\ mainPc = "metaDefault"
    /\ masterMetaFolder' = IF masterMetaFolder = EmptyString
                           THEN volumeDataFolders ELSE masterMetaFolder
    /\ mainPc' = "checkMeta"
    /\ UNCHANGED <<inputVars, serverMaxCpu, gomaxprocs, volumePublicUrl,
                   serverWhiteList, localVars, waitVars, masterListener,
                   peers, peersAssigned, serverVars, masterPc, raftPc, exited>>
    /\ UNCHANGED clusterVars

\* lines 69-71
CheckMetaFolder ==
    /\ Running /\ mainPc = "checkMeta"
    /\ IF TestFolderWritable(masterMetaFolder)
       THEN mainPc' = "split" /\ UNCHANGED exited
       ELSE Fatalf /\ UNCHANGED mainPc
    /\ UNCHANGED <<flagVars, localVars, waitVars, masterListener, peers,
                   peersAssigned, serverVars, masterPc, raftPc>>
    /\ UNCHANGED clusterVars

\* lines 73-75
SplitFlags ==
    /\ Running /\ mainPc = "split"
    /\ folders' = Split(volumeDataFolders)
    /\ maxCountStrings' = Split(volumeMaxDataVolumeCounts)
    /\ maxCounts' = <<>>
    /\ idx' = 1
    /\ mainPc' = "parseMax"
    /\ UNCHANGED <<flagVars, waitVars, masterListener, peers, peersAssigned,
                   serverVars, masterPc, raftPc, exited>>
    /\ UNCHANGED clusterVars

\* ParseMaxCount that skips an entry that is no number
ParseMaxCountSkippingInvalid ==
    /\ Running /\ mainPc = "parseMax"
    /\ LET r == Atoi(maxCountStrings[idx])
       IN  /\ maxCounts' = IF r.ok THEN Append(maxCounts, r.val) ELSE maxCounts
           /\ idx' = idx + 1
           /\ mainPc' = IF idx < Len(maxCountStrings)
                        THEN "parseMax" ELSE "checkCount"
    /\ UNCHANGED <<flagVars, folders, maxCountStrings, waitVars, masterListener,
                   peers, peersAssigned, serverVars, masterPc, raftPc, exited>>
    /\ UNCHANGED clusterVars

\* lines 76-82: one iteration of the loop over maxCountStrings
ParseMaxCount ==
    /\ Running /\ mainPc = "parseMax"
    /\ LET r == Atoi(maxCountStrings[idx])
       IN  IF r.ok
           THEN /\ maxCounts' = Append(maxCounts, r.val)
                /\ idx' = idx + 1
                /\ mainPc' = IF idx < Len(maxCountStrings)
                             THEN "parseMax" ELSE "checkCount"
                /\ UNCHANGED exited
           ELSE Fatalf /\ UNCHANGED <<maxCounts, idx, mainPc>>
    /\ UNCHANGED <<flagVars, folders, maxCountStrings, waitVars, masterListener,
                   peers, peersAssigned, serverVars, masterPc, raftPc>>
    /\ UNCHANGED clusterVars

\* CheckCounts that is fatal only for fewer counts than folders
CheckCountsOnlyTooFew ==
    /\ Running /\ mainPc = "checkCount"
    /\ IF Len(folders) > Len(maxCounts)
       THEN Fatalf /\ UNCHANGED <<mainPc, idx>>
       ELSE mainPc' = "checkFolders" /\ idx' = 1 /\ UNCHANGED exited
    /\ UNCHANGED <<flagVars, folders, maxCountStrings, maxCounts, waitVars,
                   masterListener, peers, peersAssigned, serverVars, masterPc,
                   raftPc>>
    /\ UNCHANGED clusterVars

\* lines 83-85
CheckCounts ==
    /\ Running /\ mainPc = "checkCount"
    /\ IF Len(folders) # Len(maxCounts)
       THEN Fatalf /\ UNCHANGED <<mainPc, idx>>
       ELSE mainPc' = "checkFolders" /\ idx' = 1 /\ UNCHANGED exited
    /\ UNCHANGED <<flagVars, folders, maxCountStrings, maxCounts, waitVars,
                   masterListener, peers, peersAssigned, serverVars, masterPc,
                   raftPc>>
    /\ UNCHANGED clusterVars

\* CheckDataFolder that leaves the loop after the first folder
CheckDataFolderFirstOnly ==
    /\ Running /\ mainPc = "checkFolders"
    /\ IF TestFolderWritable(folders[idx])
       THEN /\ idx' = idx + 1
            /\ mainPc' = "defaults"
            /\ UNCHANGED exited
       ELSE Fatalf /\ UNCHANGED <<idx, mainPc>>
    /\ UNCHANGED <<flagVars, folders, maxCountStrings, maxCounts, waitVars,
                   masterListener, peers, peersAssigned, serverVars, masterPc,
                   raftPc>>
    /\ UNCHANGED clusterVars

\* lines 86-90: one iteration of the loop over folders
CheckDataFolder ==
    /\ Running /\ mainPc = "checkFolders"
    /\ IF TestFolderWritable(folders[idx])
       THEN /\ idx' = idx + 1
            /\ mainPc' = IF idx < Len(folders) THEN "checkFolders" ELSE "defaults"
            /\ UNCHANGED exited
       ELSE Fatalf /\ UNCHANGED <<idx, mainPc>>
    /\ UNCHANGED <<flagVars, folders, maxCountStrings, maxCounts, waitVars,
                   masterListener, peers, peersAssigned, serverVars, masterPc,
                   raftPc>>
    /\ UNCHANGED clusterVars

\* lines 92-97: -publicUrl defaults to <ip>:<port>; the white list is split
DefaultPublicUrl ==
    /\ Running /\ mainPc = "defaults"
    /\ volumePublicUrl' = IF volumePublicUrl = EmptyString
                          THEN HostPort(ServerIp, VolumePortString)
                          ELSE volumePublicUrl
    /\ serverWhiteList' = IF serverWhiteListOption # EmptyString
                          THEN Split(serverWhiteListOption) ELSE serverWhiteList
    /\ mainPc' = "waitGroups"
    /\ UNCHANGED <<inputVars, masterMetaFolder, serverMaxCpu, gomaxprocs,
                   localVars, waitVars, masterListener, peers, peersAssigned,
                   serverVars, masterPc, raftPc, exited>>
    /\ UNCHANGED clusterVars

\* AddWaitGroups without raftWaitForMaster.Add(1)
AddWaitGroupsOnlyVolume ==
    /\ Running /\ mainPc = "waitGroups"
    /\ volumeWait' = volumeWait + 1
    /\ mainPc' = "spawnMaster"
    /\ UNCHANGED <<flagVars, localVars, raftWaitForMaster, masterListener, peers,
                   peersAssigned, serverVars, masterPc, raftPc, exited>>
    /\ UNCHANGED clusterVars

\* lines 99-103
AddWaitGroups ==
    /\ Running /\ mainPc = "waitGroups"
    /\ raftWaitForMaster' = raftWaitForMaster + 1
    /\ volumeWait' = volumeWait + 1
    /\ mainPc' = "spawnMaster"
    /\ UNCHANGED <<flagVars, localVars, masterListener, peers, peersAssigned,
                   serverVars, masterPc, raftPc, exited>>
    /\ UNCHANGED clusterVars

(***************************************************************************)
(* runServer, the main goroutine: lines 105 and 138-155.                   *)
(***************************************************************************)
\* line 105: go func() { ... }()
SpawnMaster ==
    /\ Running /\ mainPc = "spawnMaster"
    /\ masterPc' = "newMaster"
    /\ mainPc' = "volumeWait"
    /\ UNCHANGED <<flagVars, localVars, waitVars, masterListener, peers,
                   peersAssigned, serverVars, raftPc, exited>>
    /\ UNCHANGED clusterVars

\* VolumeWaitWait returning at once, whatever the counter
VolumeWaitWaitNotWaiting ==
    /\ Running /\ mainPc = "volumeWait"
    /\ mainPc' = "sleep"
    /\ UNCHANGED <<flagVars, localVars, waitVars, masterListener, peers,
                   peersAssigned, serverVars, masterPc, raftPc, exited>>
    /\ UNCHANGED clusterVars

\* line 138: volumeWait.Wait()
VolumeWaitWait ==
    /\ Running /\ mainPc = "volumeWait"
    /\ volumeWait = 0
    /\ mainPc' = "sleep"
    /\ UNCHANGED <<flagVars, localVars, waitVars, masterListener, peers,
                   peersAssigned, serverVars, masterPc, raftPc, exited>>
    /\ UNCHANGED clusterVars

\* line 139: time.Sleep, a delay of any length
MainSleep ==
    /\ Running /\ mainPc = "sleep"
    /\ mainPc' = "newVolume"
    /\ UNCHANGED <<flagVars, localVars, waitVars, masterListener, peers,
                   peersAssigned, serverVars, masterPc, raftPc, exited>>
    /\ UNCHANGED clusterVars

\* NewVolumeServer setting -publicUrl to its default once more
NewVolumeServerRewritingPublicUrl ==
    /\ Running /\ mainPc = "newVolume"
    /\ volumePublicUrl' = HostPort(ServerIp, VolumePortString)
    /\ volumeServers' = Append(volumeServers,
            [publicUrl |-> volumePublicUrl', folders |-> folders,
             maxCounts |-> maxCounts,
             masterNode |-> HostPort(ServerIp, MasterPortString),
             pulse |-> VolumePulse, whiteList |-> serverWhiteList])
    /\ mainPc' = "volumeListen"
    /\ UNCHANGED <<inputVars, masterMetaFolder, serverMaxCpu, gomaxprocs,
                   serverWhiteList, localVars, waitVars, masterListener, peers,
                   peersAssigned, masterServers, raftServers, masterPc, raftPc,
                   exited>>
    /\ UNCHANGED clusterVars

\* NewVolumeServer given the volume server's own address as its master
NewVolumeServerOwnAddress ==
    /\ Running /\ mainPc = "newVolume"
    /\ volumeServers' = Append(volumeServers,
            [publicUrl |-> volumePublicUrl, folders |-> folders,
             maxCounts |-> maxCounts,
             masterNode |-> HostPort(ServerIp, VolumePortString),
             pulse |-> VolumePulse, whiteList |-> serverWhiteList])
    /\ mainPc' = "volumeListen"
    /\ UNCHANGED <<flagVars, localVars, waitVars, masterListener, peers,
                   peersAssigned, masterServers, raftServers, masterPc, raftPc,
                   exited>>
    /\ UNCHANGED clusterVars

\* lines 140-143
NewVolumeServer ==
    /\ Running /\ mainPc = "newVolume"
    /\ volumeServers' = Append(volumeServers,
            [publicUrl |-> volumePublicUrl, folders |-> folders,
             maxCounts |-> maxCounts,
             masterNode |-> HostPort(ServerIp, MasterPortString),
             pulse |-> VolumePulse, whiteList |-> serverWhiteList])
    /\ mainPc' = "volumeListen"
    /\ UNCHANGED <<flagVars, localVars, waitVars, masterListener, peers,
                   peersAssigned, masterServers, raftServers, masterPc, raftPc,
                   exited>>
    /\ UNCHANGED clusterVars

\* lines 146-152: util.NewListener succeeds or fails
VolumeListen ==
    /\ Running /\ mainPc = "volumeListen"
    /\ \E ok \in BOOLEAN :
          IF ok THEN mainPc' = "volumeServe" /\ UNCHANGED exited
          ELSE Fatalf /\ UNCHANGED mainPc
    /\ UNCHANGED <<flagVars, localVars, waitVars, masterListener, peers,
                   peersAssigned, serverVars, masterPc, raftPc>>
    /\ UNCHANGED clusterVars

\* lines 153-155: http.Serve serves until it returns an error, which is fatal
VolumeServe ==
    /\ Running /\ mainPc \in {"volumeServe", "volumeServing"}
    /\ IF mainPc = "volumeServe"
       THEN mainPc' = "volumeServing" /\ UNCHANGED exited
       ELSE Fatalf /\ UNCHANGED mainPc
    /\ UNCHANGED <<flagVars, localVars, waitVars, masterListener, peers,
                   peersAssigned, serverVars, masterPc, raftPc>>
    /\ UNCHANGED clusterVars

(***************************************************************************)
(* The master goroutine (lines 105-136).                                   *)
(***************************************************************************)
\* lines 106-109: the master server and its topology
NewMasterServer ==
    /\ Running /\ masterPc = "newMaster"
    /\ masterServers' = Append(masterServers,
            [metaFolder |-> masterMetaFolder, Topo |-> Len(masterServers) + 1,
             whiteList |-> serverWhiteList, pulse |-> VolumePulse,
             raftServer |-> 0])
    /\ masterPc' = "listen"
    /\ UNCHANGED <<flagVars, localVars, waitVars, masterListener, peers,
                   peersAssigned, raftServers, volumeServers, mainPc, raftPc,
                   exited>>
    /\ UNCHANGED clusterVars

\* MasterListen with the error of util.NewListener ignored
MasterListenIgnoringError ==
    /\ Running /\ masterPc = "listen"
    /\ \E ok \in BOOLEAN :
          /\ masterListener' = IF ok THEN HostPort(ServerIp, MasterPortString)
                               ELSE masterListener
          /\ masterPc' = "spawnRaft"
    /\ UNCHANGED <<flagVars, localVars, waitVars, peers, peersAssigned,
                   serverVars, mainPc, raftPc, exited>>
    /\ UNCHANGED clusterVars

\* lines 112-118: util.NewListener succeeds or fails
MasterListen ==
    /\ Running /\ masterPc = "listen"
    /\ \E ok \in BOOLEAN :
          IF ok
          THEN /\ masterListener' = HostPort(ServerIp, MasterPortString)
               /\ masterPc' = "spawnRaft"
               /\ UNCHANGED exited
          ELSE Fatalf /\ UNCHANGED <<masterListener, masterPc>>
    /\ UNCHANGED <<flagVars, localVars, waitVars, peers, peersAssigned,
                   serverVars, mainPc, raftPc>>
    /\ UNCHANGED clusterVars

\* line 120: go func() { ... }()
SpawnRaft ==
    /\ Running /\ masterPc = "spawnRaft"
    /\ raftPc' = "wait"
    /\ masterPc' = "done"
    /\ UNCHANGED <<flagVars, localVars, waitVars, masterListener, peers,
                   peersAssigned, serverVars, mainPc, exited>>
    /\ UNCHANGED clusterVars

\* line 132: raftWaitForMaster.Done()
RaftWaitForMasterDone ==
    /\ Running /\ masterPc = "done"
    /\ raftWaitForMaster' = raftWaitForMaster - 1
    /\ masterPc' = "serve"
    /\ UNCHANGED <<flagVars, localVars, volumeWait, masterListener, peers,
                   peersAssigned, serverVars, mainPc, raftPc, exited>>
    /\ UNCHANGED clusterVars

\* lines 133-135: http.Serve serves until it returns an error, which is fatal
MasterServe ==
    /\ Running /\ masterPc \in {"serve", "serving"}
    /\ IF masterPc = "serve"
       THEN masterPc' = "serving" /\ UNCHANGED exited
       ELSE Fatalf /\ UNCHANGED masterPc
    /\ UNCHANGED <<flagVars, localVars, waitVars, masterListener, peers,
                   peersAssigned, serverVars, mainPc, raftPc>>
    /\ UNCHANGED clusterVars

(***************************************************************************)
(* The raft goroutine (lines 120-130).                                     *)
(***************************************************************************)
\* line 121: raftWaitForMaster.Wait()
RaftWaitForMasterWait ==
    /\ Running /\ raftPc = "wait"
    /\ raftWaitForMaster = 0
    /\ raftPc' = "sleep"
    /\ UNCHANGED <<flagVars, localVars, waitVars, masterListener, peers,
                   peersAssigned, serverVars, mainPc, masterPc, exited>>
    /\ UNCHANGED clusterVars

\* line 122: time.Sleep, a delay of any length
RaftSleep ==
    /\ Running /\ raftPc = "sleep"
    /\ raftPc' = "peers"
    /\ UNCHANGED <<flagVars, localVars, waitVars, masterListener, peers,
                   peersAssigned, serverVars, mainPc, masterPc, exited>>
    /\ UNCHANGED clusterVars

\* SplitPeers that splits -peers also when it is empty
SplitPeersAlways ==
    /\ Running /\ raftPc = "peers"
    /\ peers' = Split(serverPeers)
    /\ peersAssigned' = peersAssigned + 1
    /\ raftPc' = "newRaft"
    /\ UNCHANGED <<flagVars, localVars, waitVars, masterListener, serverVars,
                   mainPc, masterPc, exited>>
    /\ UNCHANGED clusterVars

\* lines 123-126
SplitPeers ==
    /\ Running /\ raftPc = "peers"
    /\ IF serverPeers # EmptyString
       THEN peers' = Split(serverPeers) /\ peersAssigned' = peersAssigned + 1
       ELSE UNCHANGED <<peers, peersAssigned>>
    /\ raftPc' = "newRaft"
    /\ UNCHANGED <<flagVars, localVars, waitVars, masterListener, serverVars,
                   mainPc, masterPc, exited>>
    /\ UNCHANGED clusterVars

\* NewRaftServer given a topology of its own instead of ms.Topo
NewRaftServerOwnTopology ==
    /\ Running /\ raftPc = "newRaft"
    /\ raftServers' = Append(raftServers,
            [peers |-> peers, httpAddr |-> HostPort(ServerIp, MasterPortString),
             dataDir |-> masterMetaFolder, topo |-> masterServers[ms].Topo + 1,
             pulse |-> VolumePulse])
    /\ raftPc' = "setRaft"
    /\ UNCHANGED <<flagVars, localVars, waitVars, masterListener, peers,
                   peersAssigned, masterServers, volumeServers, mainPc, masterPc,
                   exited>>
    /\ UNCHANGED clusterVars

\* line 127
NewRaftServer ==
    /\ Running /\ raftPc = "newRaft"
    /\ raftServers' = Append(raftServers,
            [peers |-> peers, httpAddr |-> HostPort(ServerIp, MasterPortString),
             dataDir |-> masterMetaFolder, topo |-> masterServers[ms].Topo,
             pulse |-> VolumePulse])
    /\ raftPc' = "setRaft"
    /\ UNCHANGED <<flagVars, localVars, waitVars, masterListener, peers,
                   peersAssigned, masterServers, volumeServers, mainPc, masterPc,
                   exited>>
    /\ UNCHANGED clusterVars

\* line 128: ms.SetRaftServer(raftServer)
SetRaftServer ==
    /\ Running /\ raftPc = "setRaft"
    /\ masterServers' = [masterServers EXCEPT ![ms].raftServer = Len(raftServers)]
    /\ raftPc' = "volumeDone"
    /\ UNCHANGED <<flagVars, localVars, waitVars, masterListener, peers,
                   peersAssigned, raftServers, volumeServers, mainPc, masterPc,
                   exited>>
    /\ UNCHANGED clusterVars

\* the raft goroutine ending without volumeWait.Done()
VolumeWaitDoneForgotten ==
    /\ Running /\ raftPc = "volumeDone"
    /\ raftPc' = "end"
    /\ UNCHANGED <<flagVars, localVars, waitVars, masterListener, peers,
                   peersAssigned, serverVars, mainPc, masterPc, exited>>
    /\ UNCHANGED clusterVars

\* line 129: volumeWait.Done()
VolumeWaitDone ==
    /\ Running /\ raftPc = "volumeDone"
    /\ volumeWait' = volumeWait - 1
    /\ raftPc' = "end"
    /\ UNCHANGED <<flagVars, localVars, raftWaitForMaster, masterListener, peers,
                   peersAssigned, serverVars, mainPc, masterPc, exited>>
    /\ UNCHANGED clusterVars

Next ==
    \/ SetMaxCpu \/ DefaultMetaFolder \/ CheckMetaFolder \/ SplitFlags
    \/ ParseMaxCount \/ CheckCounts \/ CheckDataFolder \/ DefaultPublicUrl
    \/ AddWaitGroups \/ SpawnMaster
    \/ VolumeWaitWait \/ MainSleep \/ NewVolumeServer \/ VolumeListen
    \/ VolumeServe
    \/ NewMasterServer \/ MasterListen \/ SpawnRaft \/ RaftWaitForMasterDone
    \/ MasterServe
    \/ RaftWaitForMasterWait \/ RaftSleep \/ SplitPeers \/ NewRaftServer
    \/ SetRaftServer \/ VolumeWaitDone

Spec == Init /\ [][Next]_vars

(***************************************************************************)
(* runServer under a fair scheduler: a goroutine whose next statement can  *)
(* run does run.  That http.Serve returns an error is up to the            *)
(* environment and is not a step any goroutine is owed.  The flags that    *)
(* have no part in the synchronisation are left at their defaults.         *)
(***************************************************************************)
MainStep ==
    \/ SetMaxCpu \/ DefaultMetaFolder \/ CheckMetaFolder \/ SplitFlags
    \/ ParseMaxCount \/ CheckCounts \/ CheckDataFolder \/ DefaultPublicUrl
    \/ AddWaitGroups \/ SpawnMaster
    \/ VolumeWaitWait \/ MainSleep \/ NewVolumeServer \/ VolumeListen
    \/ (mainPc = "volumeServe" /\ VolumeServe)

MasterStep ==
    \/ NewMasterServer \/ MasterListen \/ SpawnRaft \/ RaftWaitForMasterDone
    \/ (masterPc = "serve" /\ MasterServe)

RaftStep ==
    \/ RaftWaitForMasterWait \/ RaftSleep \/ SplitPeers \/ NewRaftServer
    \/ SetRaftServer \/ VolumeWaitDone

FairInit ==
    /\ Init
    /\ serverMaxCpu = 0
    /\ volumePublicUrl = EmptyString
    /\ serverWhiteListOption = EmptyString
    /\ serverPeers = EmptyString

FairSpec ==
    /\ FairInit /\ [][Next]_vars
    /\ WF_vars(MainStep) /\ WF_vars(MasterStep) /\ WF_vars(RaftStep)

(***************************************************************************)
(* The consensus module that NewRaftServer (line 127) starts on each of    *)
(* the master peers: leader election among the configured peers, with      *)
(* vote and append-entry RPCs.  rMsgs holds every RPC sent so far: one may *)
(* be received after any delay and in any order, more than once, or never  *)
(* (it is lost).                                                           *)
(***************************************************************************)
\* more than half of the configured peers
IsMajority(S) == Cardinality(S) * 2 > Cardinality(Peers)

\* a vote request, sent to every other peer, asks for a vote in the
\* sender's term
VoteRequest(from, term) ==
    [type |-> "VoteRequest", from |-> from, to |-> NoPeer, term |-> term]
\* a vote response that grants the vote of its sender in the given term;
\* a refusal gives no vote and is not kept
VoteResponse(from, to, term) ==
    [type |-> "VoteResponse", from |-> from, to |-> to, term |-> term]
\* an append-entry request of a leader to every other peer, here the
\* heartbeat of its term
AppendEntry(from, term) ==
    [type |-> "AppendEntry", from |-> from, to |-> NoPeer, term |-> term]

\* MayGrant of a peer that forgets whom it voted for
MayGrantAgain(q, candidate) == q \in Peers /\ candidate \in Peers

\* a peer grants its vote in a term to at most one candidate
MayGrant(q, candidate) == rVotedFor[q] \in {NoPeer, candidate}

\* becomeCandidateOnTimeout: no heartbeat of a leader arrived in time
BecomeCandidateOnTimeout(p) ==
    /\ rState[p] \in {"Follower", "Candidate"}
    /\ rElections < MaxElections
    /\ rElections' = rElections + 1
    /\ rTerm' = [rTerm EXCEPT ![p] = rTerm[p] + 1]
    /\ rState' = [rState EXCEPT ![p] = "Candidate"]
    /\ rVotedFor' = [rVotedFor EXCEPT ![p] = p]
    /\ rVotes' = [rVotes EXCEPT ![p] = {p}]
    /\ rLeader' = [rLeader EXCEPT ![p] = NoPeer]
    /\ rMsgs' = rMsgs \cup {VoteRequest(p, rTerm[p] + 1)}
    /\ UNCHANGED <<bootVars, allocVars>>

\* peer q receives a vote request
HandleVoteRequest(q, m) ==
    /\ m \in rMsgs /\ m.type = "VoteRequest" /\ m.from # q
    /\ LET higher  == m.term > rTerm[q]
           voted   == IF higher THEN NoPeer ELSE rVotedFor[q]
           grant   == m.term >= rTerm[q] /\ (higher \/ MayGrant(q, m.from))
           newTerm == IF higher THEN m.term ELSE rTerm[q]
       IN  /\ rTerm' = [rTerm EXCEPT ![q] = newTerm]
           /\ rState' = [rState EXCEPT ![q] = IF higher THEN "Follower" ELSE @]
           /\ rVotes' = [rVotes EXCEPT ![q] = IF higher THEN {} ELSE @]
           /\ rLeader' = [rLeader EXCEPT ![q] = IF higher THEN NoPeer ELSE @]
           /\ rVotedFor' = [rVotedFor EXCEPT ![q] = IF grant THEN m.from ELSE voted]
           /\ rMsgs' = IF grant THEN rMsgs \cup {VoteResponse(q, m.from, newTerm)}
                       ELSE rMsgs
    /\ UNCHANGED <<rElections, bootVars, allocVars>>

\* a candidate receives a vote granted in its current term
HandleVoteResponse(m) ==
    /\ m \in rMsgs /\ m.type = "VoteResponse"
    /\ rState[m.to] = "Candidate" /\ m.term = rTerm[m.to]
    /\ rVotes' = [rVotes EXCEPT ![m.to] = @ \cup {m.from}]
    /\ UNCHANGED <<rTerm, rState, rVotedFor, rLeader, rMsgs, rElections,
                   bootVars, allocVars>>

\* Candidate -> Leader on a majority of votes in the current term
BecomeLeader(p) ==
    /\ rState[p] = "Candidate"
    /\ IsMajority(rVotes[p])
    /\ rState' = [rState EXCEPT ![p] = "Leader"]
    /\ rLeader' = [rLeader EXCEPT ![p] = p]
    /\ UNCHANGED <<rTerm, rVotedFor, rVotes, rMsgs, rElections, bootVars,
                   allocVars>>

\* a leader sends the heartbeat of its term
SendAppendEntry(p) ==
    /\ rState[p] = "Leader"
    /\ AppendEntry(p, rTerm[p]) \notin rMsgs
    /\ rMsgs' = rMsgs \cup {AppendEntry(p, rTerm[p])}
    /\ UNCHANGED <<rState, rTerm, rVotedFor, rVotes, rLeader, rElections,
                   bootVars, allocVars>>

\* peer q receives an append-entry request: one of a stale term is
\* refused, any other makes q a Follower of its sender
HandleAppendEntry(q, m) ==
    /\ m \in rMsgs /\ m.type = "AppendEntry" /\ m.from # q
    /\ m.term >= rTerm[q]
    /\ rTerm' = [rTerm EXCEPT ![q] = m.term]
    /\ rState' = [rState EXCEPT ![q] = "Follower"]
    /\ rVotedFor' = [rVotedFor EXCEPT ![q] =
                       IF m.term > rTerm[q] THEN NoPeer ELSE @]
    /\ rVotes' = [rVotes EXCEPT ![q] = {}]
    /\ rLeader' = [rLeader EXCEPT ![q] = m.from]
    /\ UNCHANGED <<rMsgs, rElections, bootVars, allocVars>>

\* the process of a peer whose bootstrap has not begun: all flags unset
BootIdle ==
    /\ mdirFlag = EmptyString
    /\ masterMetaFolder = EmptyString
    /\ volumeDataFolders = <<"a">>
    /\ volumeMaxDataVolumeCounts = <<"7">>
    /\ serverPeers = <<"p", Comma, "q">>
    /\ serverMaxCpu = 0
    /\ maxCpuFlag = 0
    /\ gomaxprocs = NumCPU
    /\ volumePublicUrl = EmptyString
    /\ publicUrlFlag = EmptyString
    /\ serverWhiteListOption = EmptyString
    /\ serverWhiteList = <<>>
    /\ writable = FolderPaths
    /\ folders = <<>>
    /\ maxCountStrings = <<>>
    /\ maxCounts = <<>>
    /\ idx = 0
    /\ raftWaitForMaster = 0
    /\ volumeWait = 0
    /\ masterListener = <<>>
    /\ peers = <<>>
    /\ peersAssigned = 0
    /\ masterServers = <<>>
    /\ raftServers = <<>>
    /\ volumeServers = <<>>
    /\ mainPc = "maxCpu"
    /\ masterPc = "none"
    /\ raftPc = "none"
    /\ exited = FALSE

RaftNext ==
    \/ \E p \in Peers : BecomeCandidateOnTimeout(p)
    \/ \E q \in Peers, m \in rMsgs : HandleVoteRequest(q, m)
    \/ \E m \in rMsgs : HandleVoteResponse(m)
    \/ \E p \in Peers : BecomeLeader(p)
    \/ \E p \in Peers : SendAppendEntry(p)
    \/ \E q \in Peers, m \in rMsgs : HandleAppendEntry(q, m)

RaftSpecInit == BootIdle /\ RaftInit /\ AllocInit

RaftSpec == RaftSpecInit /\ [][RaftNext]_vars

(***************************************************************************)
(* The replicated log of topology mutations among the three peers, and the *)
(* volume-id counter drawn from it.  An election is one step here: a       *)
(* majority of running peers adopt a new term and one of them, whose log   *)
(* is as up to date as theirs, leads it.  A leader that crashes restarts   *)
(* as a Follower with its term, log and committed prefix kept; while it is *)
(* down it is a peer that takes no part in any step.                       *)
(***************************************************************************)
Entry(term, id) == [term |-> term, id |-> id]

MaxOf(S) == CHOOSE m \in S : \A x \in S : x <= m

LastTerm(l) == IF Len(l) = 0 THEN 0 ELSE l[Len(l)].term

\* the log of p is at least as up to date as the log of q
UpToDate(p, q) ==
    \/ LastTerm(aLog[p]) > LastTerm(aLog[q])
    \/ LastTerm(aLog[p]) = LastTerm(aLog[q]) /\ Len(aLog[p]) >= Len(aLog[q])

\* the counter of a Topology that has applied the first c entries of l
MaxVolumeId(l, c) == MaxOf({0} \cup {l[i].id : i \in 1..c})

\* peer q holds the first i entries of l
Stores(q, l, i) == Len(aLog[q]) >= i /\ SubSeq(aLog[q], 1, i) = SubSeq(l, 1, i)

OnMajority(l, i) == IsMajority({q \in Peers : Stores(q, l, i)})

\* The peers being alike, the first election is taken to be won by m1 with
\* the vote of m2.
ElectLeader(p, Q) ==
    /\ rElections < MaxElections
    /\ p \in Q /\ IsMajority(Q)
    /\ rElections = 0 => p = "m1" /\ "m2" \in Q
    /\ \A q \in Q : UpToDate(p, q)
    /\ rTerm' = [q \in Peers |-> IF q \in Q
                                 THEN MaxOf({rTerm[v] : v \in Q}) + 1
                                 ELSE rTerm[q]]
    /\ rState' = [q \in Peers |-> IF q = p THEN "Leader"
                                  ELSE IF q \in Q THEN "Follower" ELSE rState[q]]
    /\ rElections' = rElections + 1
    /\ aPending' = [q \in Peers |-> IF q \in Q THEN {} ELSE aPending[q]]
    /\ aSuperseded' = aSuperseded \cup {o \in aOrphans : o.by # p}
    /\ UNCHANGED <<rVotedFor, rVotes, rLeader, rMsgs, aLog, aCommit,
                   aRequests, aIssued, aOrphans, bootVars>>

\* AllocateVolumeId whose leader applies the mutation to its own Topology
\* when it proposes it
AllocateVolumeIdAppliedLocally(p) ==
    /\ rState[p] = "Leader"
    /\ aRequests < MaxAllocations
    /\ aRequests' = aRequests + 1
    /\ aLog' = [aLog EXCEPT ![p] =
                    Append(@, Entry(rTerm[p], MaxVolumeId(@, aCommit[p]) + 1))]
    /\ aCommit' = [aCommit EXCEPT ![p] = Len(aLog[p]) + 1]
    /\ aPending' = [aPending EXCEPT ![p] = @ \cup {Len(aLog[p]) + 1}]
    /\ UNCHANGED <<raftVars, aIssued, aOrphans, aSuperseded, bootVars>>

\* allocateVolumeIds at the leader: the next id of the counter is proposed
\* as an entry, and the client waits for it to be committed
AllocateVolumeId(p) ==
    /\ rState[p] = "Leader"
    /\ aRequests < MaxAllocations
    /\ aRequests' = aRequests + 1
    /\ aLog' = [aLog EXCEPT ![p] =
                    Append(@, Entry(rTerm[p], MaxVolumeId(@, aCommit[p]) + 1))]
    /\ aPending' = [aPending EXCEPT ![p] = @ \cup {Len(aLog[p]) + 1}]
    /\ UNCHANGED <<raftVars, aCommit, aIssued, aOrphans, aSuperseded,
                   bootVars>>

\* an append-entry request of leader p accepted by q: q adopts the term and
\* the log of p and learns what p has committed
ReplicateLog(p, q) ==
    /\ p # q /\ rState[p] = "Leader" /\ rTerm[q] <= rTerm[p]
    /\ aLog[q] # aLog[p] \/ aCommit[q] < aCommit[p] \/ rTerm[q] < rTerm[p]
    /\ rTerm' = [rTerm EXCEPT ![q] = rTerm[p]]
    /\ rState' = [rState EXCEPT ![q] = "Follower"]
    /\ aLog' = [aLog EXCEPT ![q] = aLog[p]]
    /\ aCommit' = [aCommit EXCEPT ![q] = IF aCommit[p] > @ THEN aCommit[p] ELSE @]
    /\ aPending' = [aPending EXCEPT ![q] = {}]
    /\ UNCHANGED <<rVotedFor, rVotes, rLeader, rMsgs, rElections,
                   aRequests, aIssued, aOrphans, aSuperseded, bootVars>>

\* CommitEntry handing out the id without validating it again
CommitEntryUnvalidated(p) ==
    /\ rState[p] = "Leader"
    /\ aCommit[p] < Len(aLog[p])
    /\ \E j \in (aCommit[p] + 1)..Len(aLog[p]) :
            aLog[p][j].term = rTerm[p] /\ OnMajority(aLog[p], j)
    /\ aCommit' = [aCommit EXCEPT ![p] = @ + 1]
    /\ aIssued' =
            IF aCommit[p] + 1 \in aPending[p]
            THEN Append(aIssued, aLog[p][aCommit[p] + 1].id)
            ELSE aIssued
    /\ aPending' = [aPending EXCEPT ![p] = @ \ {aCommit[p] + 1}]
    /\ UNCHANGED <<raftVars, aLog, aRequests, aOrphans, aSuperseded,
                   bootVars>>

\* leader p commits its next entry: an entry of its own term at or after it
\* is held by a majority.  The Topology applies the entry, validating the
\* id against its counter again, and a waiting client gets the id.
CommitEntry(p) ==
    /\ rState[p] = "Leader"
    /\ aCommit[p] < Len(aLog[p])
    /\ \E j \in (aCommit[p] + 1)..Len(aLog[p]) :
            aLog[p][j].term = rTerm[p] /\ OnMajority(aLog[p], j)
    /\ aCommit' = [aCommit EXCEPT ![p] = @ + 1]
    /\ aIssued' =
            IF /\ aCommit[p] + 1 \in aPending[p]
               /\ aLog[p][aCommit[p] + 1].id > MaxVolumeId(aLog[p], aCommit[p])
            THEN Append(aIssued, aLog[p][aCommit[p] + 1].id)
            ELSE aIssued
    /\ aPending' = [aPending EXCEPT ![p] = @ \ {aCommit[p] + 1}]
    /\ UNCHANGED <<raftVars, aLog, aRequests, aOrphans, aSuperseded,
                   bootVars>>

\* the entries leader p has proposed in its term that no majority holds
Uncommitted(p) ==
    {[by |-> p, index |-> i, term |-> aLog[p][i].term, id |-> aLog[p][i].id] :
        i \in {k \in 1..Len(aLog[p]) :
                  aLog[p][k].term = rTerm[p] /\ ~OnMajority(aLog[p], k)}}

\* leader p crashes and restarts as a Follower; its clients are told that
\* their requests failed
CrashLeader(p) ==
    /\ rState[p] = "Leader"
    /\ rState' = [rState EXCEPT ![p] = "Follower"]
    /\ aPending' = [aPending EXCEPT ![p] = {}]
    /\ aOrphans' = IF aOrphans = {} THEN Uncommitted(p) ELSE aOrphans
    /\ UNCHANGED <<rTerm, rVotedFor, rVotes, rLeader, rMsgs, rElections, aLog,
                   aCommit, aRequests, aIssued, aSuperseded, bootVars>>

AllocNext ==
    \/ \E p \in Peers, Q \in SUBSET Peers : ElectLeader(p, Q)
    \/ \E p \in Peers : AllocateVolumeId(p)
    \/ \E p, q \in Peers : ReplicateLog(p, q)
    \/ \E p \in Peers : CommitEntry(p)
    \/ \E p \in Peers : CrashLeader(p)

AllocSpec == RaftSpecInit /\ [][AllocNext]_vars

(***************************************************************************)
(* Vocabulary of the properties, stated on the flags as the user wrote     *)
(* them and independently of Split and Atoi.                               *)
(***************************************************************************)
CommaPositions(s) == {i \in 1..Len(s) : s[i] = Comma}

\* the position of the k-th comma of s; 0 for k = 0, Len(s) + 1 past the last
CommaAt(s, k) ==
    IF k = 0 THEN 0
    ELSE IF k > Cardinality(CommaPositions(s)) THEN Len(s) + 1
    ELSE CHOOSE i \in CommaPositions(s) :
            Cardinality({j \in CommaPositions(s) : j <= i}) = k

\* the values the comma-separated flags can hold
ListValues == DirValues \cup MaxValues \cup PeersValues \cup WhiteListValues

\* the comma-separated entries of each of them, in order; these flags never
\* change, so their entries are the same in every state
Entries ==
    [s \in ListValues |->
        [k \in 1..(Cardinality(CommaPositions(s)) + 1) |->
            SubSeq(s, CommaAt(s, k - 1) + 1, CommaAt(s, k) - 1)]]

\* the number of comma-separated entries of s
EntryCount(s) == Len(Entries[s])

\* the k-th comma-separated entry of s
EntryAt(s, k) == Entries[s][k]

EntriesOf(s) == {EntryAt(s, k) : k \in 1..EntryCount(s)}

RECURSIVE PowerOfTen(_)
PowerOfTen(n) == IF n = 0 THEN 1 ELSE 10 * PowerOfTen(n - 1)

RECURSIVE SumOver(_, _)
SumOver(f, S) ==
    IF S = {} THEN 0
    ELSE LET x == CHOOSE y \in S : TRUE IN f[x] + SumOver(f, S \ {x})

\* the integer a string of decimal digits denotes
IntegerValue(e) ==
    SumOver([i \in 1..Len(e) |-> DigitVal(e[i]) * PowerOfTen(Len(e) - i)],
            1..Len(e))

MasterCreated == Len(masterServers) > 0
ListenerCreated == masterListener # <<>>
RaftCreated == Len(raftServers) > 0
VolumeCreated == Len(volumeServers) > 0

NothingCreated ==
    ~MasterCreated /\ ~ListenerCreated /\ ~RaftCreated /\ ~VolumeCreated
    /\ masterPc = "none" /\ raftPc = "none"

\* the process has ended fatally, or is still on its way
FatalOrRunning == exited \/ ENABLED Next

(***************************************************************************)
(* Properties.                                                             *)
(***************************************************************************)
\* C1: the consensus module is constructed, and the raft goroutine gets to
\* the call of NewRaftServer, only once the master's listener exists on
\* <ip>:<masterPort>; the sleep of line 122 is a step of no duration.
C1_RaftAfterMasterListener ==
    (RaftCreated \/ raftPc \in {"newRaft", "setRaft", "volumeDone", "end"})
        => masterListener = HostPort(ServerIp, MasterPortString)

C1_Witness == RaftCreated /\ ListenerCreated /\ masterPc = "serve"

\* C2: the volume server is constructed, and the main goroutine gets to the
\* call of NewVolumeServer, only once NewRaftServer has returned and
\* SetRaftServer has attached the consensus module to the master server.
C2_VolumeAfterRaftAttached ==
    (VolumeCreated \/ mainPc \in {"sleep", "newVolume"})
        => /\ RaftCreated /\ MasterCreated
           /\ raftPc \in {"volumeDone", "end"}
           /\ masterServers[1].raftServer = 1

C2_Witness == VolumeCreated /\ RaftCreated /\ masterServers[1].raftServer = 1

\* C3: whenever the consensus module has been constructed, the master
\* goroutine has already entered http.Serve on the master listener.
C3_ServingBeforeRaft == RaftCreated => masterPc = "serving"

\* C4: when -dir and -max differ in their number of entries, runServer
\* never gets past the comparison of line 83, creates nothing, and ends
\* fatally.
C4_CountMismatch ==
    EntryCount(volumeDataFolders) # EntryCount(volumeMaxDataVolumeCounts)

C4_CountMismatchIsFatal ==
    C4_CountMismatch
        => /\ NothingCreated
           /\ mainPc \in {"maxCpu", "metaDefault", "checkMeta", "split",
                          "parseMax", "checkCount"}
           /\ FatalOrRunning

C4_Witness == C4_CountMismatch /\ exited /\ mainPc = "checkCount"

\* C5: when the meta folder or one of the data folders is not writable,
\* runServer never gets past the checks of lines 69 and 86-90, creates
\* nothing, and ends fatally.
C5_MetaFolder == IF mdirFlag = EmptyString THEN volumeDataFolders ELSE mdirFlag

C5_SomeFolderUnwritable ==
    \/ C5_MetaFolder \notin writable
    \/ \E f \in EntriesOf(volumeDataFolders) : f \notin writable

C5_UnwritableIsFatal ==
    C5_SomeFolderUnwritable
        => /\ NothingCreated
           /\ mainPc \in {"maxCpu", "metaDefault", "checkMeta", "split",
                          "parseMax", "checkCount", "checkFolders"}
           /\ FatalOrRunning

C5_Witness ==
    /\ C5_MetaFolder \in writable
    /\ EntryAt(volumeDataFolders, 1) \in writable
    /\ exited /\ mainPc = "checkFolders" /\ idx = 2

\* C6: at most one master server, one consensus module and one volume
\* server are constructed, and the consensus module is given the one
\* Topology of the master server.
C6_Topologies ==
    {masterServers[i].Topo : i \in 1..Len(masterServers)}
        \cup {raftServers[i].topo : i \in 1..Len(raftServers)}

C6_OneOfEach ==
    /\ Len(masterServers) <= 1
    /\ Len(raftServers) <= 1
    /\ Len(volumeServers) <= 1
    /\ Cardinality(C6_Topologies) <= 1
    /\ RaftCreated => MasterCreated /\ raftServers[1].topo = masterServers[1].Topo

C6_Witness == MasterCreated /\ RaftCreated /\ VolumeCreated

\* C7: the volume server gets as many maximum counts as folders, the i-th
\* folder being the i-th entry of -dir and the i-th count the integer value
\* of the i-th entry of -max.
C7_FoldersPairedWithCounts ==
    \A v \in 1..Len(volumeServers) :
        LET vs == volumeServers[v]
        IN  /\ Len(vs.folders) = Len(vs.maxCounts)
            /\ Len(vs.folders) = EntryCount(volumeDataFolders)
            /\ Len(vs.maxCounts) = EntryCount(volumeMaxDataVolumeCounts)
            /\ \A i \in 1..Len(vs.folders) :
                  /\ vs.folders[i] = EntryAt(volumeDataFolders, i)
                  /\ vs.maxCounts[i] =
                        IntegerValue(EntryAt(volumeMaxDataVolumeCounts, i))

C7_Witness ==
    /\ VolumeCreated
    /\ Len(volumeServers[1].folders) = 2
    /\ volumeServers[1].folders[1] # volumeServers[1].folders[2]
    /\ volumeServers[1].maxCounts[1] # volumeServers[1].maxCounts[2]

\* C8: with -mdir unset, the meta folder that is checked for writability
\* and handed to NewMasterServer and NewRaftServer is a directory that
\* -dir names, also when -dir lists several folders.
C8_MetaFolderIsADataFolder ==
    mdirFlag = EmptyString
        => /\ mainPc \notin {"maxCpu", "metaDefault"}
                => masterMetaFolder \in EntriesOf(volumeDataFolders)
           /\ \A i \in 1..Len(masterServers) :
                masterServers[i].metaFolder \in EntriesOf(volumeDataFolders)
           /\ \A i \in 1..Len(raftServers) :
                raftServers[i].dataDir \in EntriesOf(volumeDataFolders)

\* C9: the peer set is computed at most once, before NewRaftServer, as the
\* entries of -peers, it is empty when -peers is empty, and neither -peers
\* nor the peers of the consensus module change afterwards.
C9_PeersOfFlag ==
    IF serverPeers = EmptyString THEN <<>>
    ELSE [k \in 1..EntryCount(serverPeers) |-> EntryAt(serverPeers, k)]

C9_PeersAsConfigured ==
    /\ peersAssigned <= 1
    /\ raftPc \in {"newRaft", "setRaft", "volumeDone", "end"}
            => peers = C9_PeersOfFlag
    /\ \A i \in 1..Len(raftServers) : raftServers[i].peers = C9_PeersOfFlag

C9_PeersNeverChange ==
    /\ serverPeers' = serverPeers
    /\ raftPc \in {"newRaft", "setRaft", "volumeDone", "end"} => peers' = peers
    /\ \A i \in 1..Len(raftServers) :
            /\ i <= Len(raftServers')
            /\ raftServers'[i].peers = raftServers[i].peers

C9_PeersFixedAtStartup == []C9_PeersAsConfigured /\ [][C9_PeersNeverChange]_vars

C9_Witness ==
    /\ RaftCreated /\ raftPc = "end"
    /\ serverPeers = EmptyString
    /\ raftServers[1].peers = <<>>

\* C10: in the cluster of three peers, with RPCs delayed, reordered or
\* lost, at most one peer is Leader for any given term.
C10_LeaderExclusivity ==
    \A p, q \in Peers :
        (rState[p] = "Leader" /\ rState[q] = "Leader" /\ rTerm[p] = rTerm[q])
            => p = q

C10_Witness ==
    \E p, q \in Peers :
        /\ p # q
        /\ rState[p] = "Leader" /\ rState[q] = "Candidate"
        /\ rTerm[p] = rTerm[q]

\* C11: through allocation requests, leader crashes and elections, no
\* VolumeId is handed out twice, and every id handed out is that of a
\* committed entry and lies above all ids committed before it: a leader
\* elected later goes on from the committed counter, not from zero.
C11_NoDuplicateVolumeIds ==
    /\ \A i, j \in 1..Len(aIssued) : i # j => aIssued[i] # aIssued[j]
    /\ \A i \in 1..Len(aIssued) :
          \E p \in Peers : \E k \in 1..aCommit[p] :
              /\ aLog[p][k].id = aIssued[i]
              /\ \A h \in 1..(k - 1) : aLog[p][h].id < aIssued[i]

C11_Witness ==
    /\ Len(aIssued) = 2
    /\ \E p \in Peers :
          /\ rState[p] = "Leader" /\ aCommit[p] >= 2
          /\ \E i, j \in 1..aCommit[p] :
                /\ aLog[p][i].term < aLog[p][j].term
                /\ aLog[p][i].id = aIssued[1] /\ aLog[p][j].id = aIssued[2]

\* C12: a mutation is in the Topology of a peer only when a majority of the
\* peers hold its entry; an entry that no majority held when its leader
\* crashed is in no Topology when another peer is elected, and gets into one
\* later only by being committed after all.
C12_HeldByMajority(l, i) ==
    Cardinality({q \in Peers : Len(aLog[q]) >= i /\ aLog[q][i] = l[i]}) * 2 > 3

C12_Visible(p, o) ==
    /\ o.index <= aCommit[p] /\ o.index <= Len(aLog[p])
    /\ aLog[p][o.index] = [term |-> o.term, id |-> o.id]

C13_IsInteger(e) ==
    LET unsigned == IF Len(e) > 0 /\ e[1] \in {"+", "-"}
                    THEN SubSeq(e, 2, Len(e)) ELSE e
    IN  Len(unsigned) > 0 /\ \A i \in 1..Len(unsigned) : unsigned[i] \in Digits

\* whether a value of -max has an entry that is not an integer
C13_HasInvalidEntry ==
    [s \in MaxValues |->
        \E k \in 1..EntryCount(s) : ~C13_IsInteger(EntryAt(s, k))]

C13_InvalidMax == C13_HasInvalidEntry[volumeMaxDataVolumeCounts]

C13_InvalidMaxIsFatal ==
    C13_InvalidMax
        => /\ NothingCreated
           /\ mainPc \in {"maxCpu", "metaDefault", "checkMeta", "split", "parseMax"}
           /\ FatalOrRunning
           /\ exited => \/ mainPc = "parseMax"
                        \/ mainPc = "checkMeta" /\ masterMetaFolder \notin writable

\* C13 as first stated: the fatal end is always the one of the parse loop
C13_FatalWhileParsing == (C13_InvalidMax /\ exited) => mainPc = "parseMax"

C13_Witness ==
    /\ C13_InvalidMax /\ exited /\ mainPc = "parseMax"
    /\ Len(maxCounts) = 1 /\ Len(maxCountStrings) = 2

\* C14: when the master listener cannot be created (the process ends at
\* line 117), the raft goroutine was never spawned, neither wait-group was
\* ever done, no consensus module and no volume server exist, and the main
\* goroutine is still in volumeWait.Wait.
C14_ListenerFailed == exited /\ masterPc = "listen"

C14_ListenerFailureStopsAll ==
    C14_ListenerFailed
        => /\ raftPc = "none"
           /\ raftWaitForMaster = 1 /\ volumeWait = 1
           /\ ~ListenerCreated /\ ~RaftCreated /\ ~VolumeCreated
           /\ mainPc = "volumeWait"
           /\ ~ENABLED Next

C14_Witness == C14_ListenerFailed /\ MasterCreated

\* C16: the counters of raftWaitForMaster and volumeWait are always 0 or 1;
\* each is raised once, from 0 to 1, before any goroutine is spawned, and
\* lowered at most once: raftWaitForMaster by the master goroutine at line
\* 132, when the listener exists, and volumeWait by the raft goroutine at
\* line 129, when SetRaftServer has attached the consensus module.
C16_NoGoroutine == masterPc = "none" /\ raftPc = "none"

C16_Counters ==
    /\ raftWaitForMaster \in {0, 1} /\ volumeWait \in {0, 1}
    /\ ~C16_NoGoroutine
            => /\ raftWaitForMaster = (IF masterPc \in {"serve", "serving"}
                                       THEN 0 ELSE 1)
               /\ volumeWait = (IF raftPc = "end" THEN 0 ELSE 1)

C16_CounterSteps ==
    /\ raftWaitForMaster' > raftWaitForMaster
            => /\ raftWaitForMaster = 0 /\ raftWaitForMaster' = 1
               /\ C16_NoGoroutine /\ mainPc = "waitGroups"
    /\ volumeWait' > volumeWait
            => /\ volumeWait = 0 /\ volumeWait' = 1
               /\ C16_NoGoroutine /\ mainPc = "waitGroups"
    /\ raftWaitForMaster' < raftWaitForMaster
            => /\ raftWaitForMaster' = raftWaitForMaster - 1
               /\ masterPc = "done" /\ masterPc' = "serve"
               /\ ListenerCreated
               /\ mainPc' = mainPc /\ raftPc' = raftPc
    /\ volumeWait' < volumeWait
            => /\ volumeWait' = volumeWait - 1
               /\ raftPc = "volumeDone" /\ raftPc' = "end"
               /\ MasterCreated /\ RaftCreated
               /\ masterServers[ms].raftServer = Len(raftServers)
               /\ mainPc' = mainPc /\ masterPc' = masterPc

C16_WaitGroupDiscipline == []C16_Counters /\ [][C16_CounterSteps]_vars

C16_Witness ==
    /\ raftWaitForMaster = 0 /\ volumeWait = 0
    /\ raftPc = "end" /\ masterPc = "serving" /\ mainPc = "sleep"

\* C17: maxCpu, the meta folder, the public url, the white list, folders and
\* maxCounts have their final values when the configuration phase (lines
\* 61-97) is over, before the first goroutine is spawned; from then on no
\* step writes any of them, and every server is constructed from them.
C17_ConfigurationPhase ==
    mainPc \in {"maxCpu", "metaDefault", "checkMeta", "split", "parseMax",
                "checkCount", "checkFolders", "defaults"}

C17_EntrySeq(s) == [k \in 1..EntryCount(s) |-> EntryAt(s, k)]

C17_Finalised ==
    /\ serverMaxCpu = (IF maxCpuFlag < 1 THEN NumCPU ELSE maxCpuFlag)
    /\ gomaxprocs = serverMaxCpu
    /\ masterMetaFolder = C5_MetaFolder
    /\ volumePublicUrl = (IF publicUrlFlag = EmptyString
                          THEN <<"localhost", ":", "8080">> ELSE publicUrlFlag)
    /\ serverWhiteList = (IF serverWhiteListOption = EmptyString THEN <<>>
                          ELSE C17_EntrySeq(serverWhiteListOption))
    /\ folders = C17_EntrySeq(volumeDataFolders)
    /\ maxCounts = [k \in 1..EntryCount(volumeMaxDataVolumeCounts) |->
                        IntegerValue(EntryAt(volumeMaxDataVolumeCounts, k))]

C17_ReadByAll ==
    /\ \A i \in 1..Len(masterServers) :
            /\ masterServers[i].metaFolder = masterMetaFolder
            /\ masterServers[i].whiteList = serverWhiteList
    /\ \A i \in 1..Len(raftServers) : raftServers[i].dataDir = masterMetaFolder
    /\ \A i \in 1..Len(volumeServers) :
            /\ volumeServers[i].publicUrl = volumePublicUrl
            /\ volumeServers[i].folders = folders
            /\ volumeServers[i].maxCounts = maxCounts
            /\ volumeServers[i].whiteList = serverWhiteList

C17_Configuration ==
    <<serverMaxCpu, gomaxprocs, masterMetaFolder, volumePublicUrl,
      serverWhiteList, folders, maxCounts, volumeDataFolders,
      volumeMaxDataVolumeCounts, serverPeers, serverWhiteListOption>>

C17_FinalBeforeSpawn ==
    /\ ~C17_ConfigurationPhase => C17_Finalised /\ C17_ReadByAll
    /\ C17_ConfigurationPhase => masterPc = "none" /\ raftPc = "none"

C17_NoWriteAfterwards ==
    ~C17_ConfigurationPhase => C17_Configuration' = C17_Configuration

C17_ConfigurationFixed ==
    []C17_FinalBeforeSpawn /\ [][C17_NoWriteAfterwards]_vars

C17_Witness ==
    /\ VolumeCreated /\ RaftCreated /\ MasterCreated
    /\ maxCpuFlag = 0 /\ mdirFlag = EmptyString /\ publicUrlFlag = EmptyString
    /\ Len(volumeServers[1].whiteList) = 2 /\ Len(folders) = 1

\* C18: the address the master listener binds, the address the consensus
\* module gets as its own, and the master address the volume server gets are
\* the same string <ip>:<masterPort>, and the master server, the consensus
\* module and the volume server get the same pulse interval.
C18_MasterAddress == <<"localhost", ":", "9333">>

C18_Pulses ==
    {masterServers[i].pulse : i \in 1..Len(masterServers)}
        \cup {raftServers[i].pulse : i \in 1..Len(raftServers)}
        \cup {volumeServers[i].pulse : i \in 1..Len(volumeServers)}

C18_OneEmbeddedMaster ==
    /\ ListenerCreated => masterListener = C18_MasterAddress
    /\ \A i \in 1..Len(raftServers) : raftServers[i].httpAddr = C18_MasterAddress
    /\ \A i \in 1..Len(volumeServers) :
            volumeServers[i].masterNode = C18_MasterAddress
    /\ Cardinality(C18_Pulses) <= 1

C18_Witness ==
    /\ ListenerCreated /\ VolumeCreated
    /\ raftServers[1].httpAddr = masterListener
    /\ volumeServers[1].masterNode = masterListener
    /\ C18_Pulses = {masterServers[1].pulse}

\* C15: under fair scheduling of the three goroutines, once the master
\* listener exists (the configuration was valid and NewMasterServer has
\* returned), the raft goroutine passes raftWaitForMaster.Wait, the main
\* goroutine passes volumeWait.Wait and the volume server is constructed,
\* unless http.Serve of the master has returned an error before and so has
\* ended the process at line 134.
C15_Bootstrapped ==
    /\ VolumeCreated
    /\ raftPc \notin {"none", "wait"}
    /\ mainPc \in {"volumeListen", "volumeServe", "volumeServing"}

C15_MasterServeFailed == exited /\ masterPc = "serving" /\ ~VolumeCreated

====
